---- MODULE Spec2Model ----
(***************************************************************************)
(* Load-test harness of ryutah/gcp-sample.                                 *)
(*                                                                         *)
(* Two programs share the same driver and recorder logic:                  *)
(*   "lib"  : package stats (Stats.Start, Recorder) driven by the cloudsql *)
(*            performance test, whose writeFunc owns the inserted map;     *)
(*   "main" : the standalone cloudsql load test with the loop inline.      *)
(* The model is one dispatch loop (the driver), one goroutine per          *)
(* dispatched operation, a wall clock, the semaphore channel, the wait     *)
(* group, the inserted map with its mutex and the two recorders.           *)
(***************************************************************************)
EXTENDS Integers, Sequences, FiniteSets

\* ------------------------------------------------------------------ bounds
MaxOps == 2          \* operations the dispatch loop may launch in a run
KeySpace == 1        \* ids sampled (rand.Intn(100) in the source)

Ops == 1..MaxOps
Keys == 0..(KeySpace - 1)
ReqCounts == {0 - 1, 0, 1, 2}   \* values of req_count explored
RunFors == {0, 1}               \* values of run_for explored, in clock ticks
Variants == {"lib", "main"}
Classes == {"read", "write"}
NoOp == 0

VARIABLES
    variant,     \* which program runs
    reqCount,    \* Config.ReqCount
    runFor,      \* Config.RunFor
    now,         \* wall clock, time.Now()
    stopTime,    \* start + RunFor
    dpc,         \* position of the driver (Stats.Start / main)
    err,         \* error result of Stats.Start / initialize
    sem,         \* number of tokens in the sem channel
    wg,          \* sync.WaitGroup counter
    nextOp,      \* operations launched so far
    pc,          \* position of each operation's goroutine
    id,          \* goroutine local: sampled id
    kind,        \* goroutine local: which recorder (rec / stats pointer)
    okv,         \* goroutine local: ok
    opStart,     \* goroutine local: opStart
    dur,         \* time.Since(opStart) passed to record
    seen,        \* value of inserted[id] read under mapLock
    adapter,     \* adapter function the operation calls
    reg,         \* value of r.Tries loaded by r.Tries++
    mapLock,     \* holder of mapLock, NoOp when free
    inserted,    \* keys k with inserted[k] == true
    rec,         \* the two recorders: mu, Tries, Ok, durations
    allStats,    \* process-wide progress counter
    callLog,     \* per id, the insert/update adapter calls in invocation order
    ncalls,      \* per operation, adapter invocations so far
    retOk,       \* per operation, whether its adapter call returned nil
    nrecs,       \* per operation, completed record calls
    fed,         \* per recorder, the record calls made with ok and with !ok
    returned,    \* the recorders Stats.Start handed back to its caller
    report       \* the two report lines main logs, NoReport before that

vars == <<variant, reqCount, runFor, now, stopTime, dpc, err, sem, wg, nextOp,
          pc, id, kind, okv, opStart, dur, seen, adapter, reg, mapLock,
          inserted, rec, allStats, callLog, ncalls, retOk, nrecs, fed,
          returned, report>>

drv == <<dpc, err, stopTime, returned, report>>
cfg == <<variant, reqCount, runFor>>
locals == <<id, kind, okv, opStart, dur, seen, adapter, reg>>
ghosts == <<callLog, ncalls, retOk, nrecs, fed>>

\* ------------------------------------------------------------ configuration
\* validate:"required" on a number rejects exactly the zero value.
Required(v) == v # 0

ConfigValid == Required(runFor) /\ Required(reqCount)

EmptyRecorder == [mu |-> NoOp, Tries |-> 0, Ok |-> 0, durations |-> <<>>]

NoReport == "none"

Init ==
    /\ variant \in Variants
    /\ reqCount \in ReqCounts
    /\ runFor \in RunFors
    /\ now = 0
    /\ stopTime = 0
    /\ dpc = "validate"
    /\ err = "nil"
    /\ sem = 0
    /\ wg = 0
    /\ nextOp = 0
    /\ pc = [o \in Ops |-> "idle"]
    /\ id = [o \in Ops |-> 0]
    /\ kind = [o \in Ops |-> "none"]
    /\ okv = [o \in Ops |-> TRUE]
    /\ opStart = [o \in Ops |-> 0]
    /\ dur = [o \in Ops |-> 0]
    /\ seen = [o \in Ops |-> FALSE]
    /\ adapter = [o \in Ops |-> "none"]
    /\ reg = [o \in Ops |-> 0]
    /\ mapLock = NoOp
    /\ inserted = {}
    /\ rec = [c \in Classes |-> EmptyRecorder]
    /\ allStats = 0
    /\ callLog = [k \in Keys |-> <<>>]
    /\ ncalls = [o \in Ops |-> 0]
    /\ retOk = [o \in Ops |-> TRUE]
    /\ nrecs = [o \in Ops |-> 0]
    /\ fed = [c \in Classes |-> [ok |-> 0, fail |-> 0]]
    /\ returned = [c \in Classes |-> EmptyRecorder]
    /\ report = NoReport

\* ------------------------------------------------------------------ clock
\* The process is gone once main has returned, failed or panicked.
Exited == dpc \in {"exit", "failed", "panic"}

\* The clock's origin is the moment the run is configured; it is followed
\* until the deadline has passed.
Tick ==
    /\ ~Exited /\ dpc # "validate"
    /\ now < stopTime
    /\ now' = now + 1
    /\ UNCHANGED <<cfg, drv, sem, wg, nextOp, pc, locals, mapLock, inserted,
                   rec, allStats, ghosts>>

\* ----------------------------------------------------------------- driver
\* Config.Validate, then make(chan struct{}, ReqCount) and stopTime.
\* make panics on a negative capacity.
Validate ==
    /\ dpc = "validate"
    /\ IF ~ConfigValid
         THEN dpc' = "failed" /\ err' = "config" /\ UNCHANGED stopTime
         ELSE IF reqCount < 0
           THEN dpc' = "panic" /\ UNCHANGED <<err, stopTime>>
           ELSE dpc' = "loop" /\ stopTime' = now + runFor /\ UNCHANGED err
    /\ UNCHANGED <<cfg, returned, report, now, sem, wg, nextOp, pc, locals,
                   mapLock, inserted, rec, allStats, ghosts>>

\* A loop that never looks at the clock.
LoopForever == TRUE

\* for time.Now().Before(stopTime) || RunFor == 0
LoopCond == now < stopTime \/ runFor = 0

LoopEnter ==
    /\ dpc = "loop"
    /\ LoopCond
    /\ nextOp < MaxOps
    /\ dpc' = "acquire"
    /\ UNCHANGED <<cfg, err, stopTime, returned, report, now, sem, wg, nextOp,
                   pc, locals, mapLock, inserted, rec, allStats, ghosts>>

\* The send never blocks: the dispatch loop launches without a free slot.
ChanAlwaysRoom == TRUE

\* A send on the buffered channel proceeds only while it has room.
ChanHasRoom == sem < reqCount

\* sem <- struct{}{}; wg.Add(1); go func() {...}()
Dispatch ==
    /\ dpc = "acquire"
    /\ ChanHasRoom
    /\ sem' = sem + 1
    /\ wg' = wg + 1
    /\ nextOp' = nextOp + 1
    /\ pc' = [pc EXCEPT ![nextOp + 1] = "begin"]
    /\ dpc' = "loop"
    /\ UNCHANGED <<cfg, err, stopTime, returned, report, now, locals, mapLock,
                   inserted, rec, allStats, ghosts>>

\* The loop ends; Stats.Start returns at once, main goes on to wg.Wait().
AfterLoop == IF variant = "lib" THEN "report" ELSE "wait"

\* The value of a Recorder as Stats.Start copies it into its results.
Copy(r) == [mu |-> NoOp, Tries |-> r.Tries, Ok |-> r.Ok,
            durations |-> r.durations]

\* "return" of Stats.Start copies the named results read and write to the
\* caller; the standalone main has no such copy.
ReturnedAfter ==
    IF variant = "lib" THEN [c \in Classes |-> Copy(rec[c])] ELSE returned

LoopExit ==
    /\ dpc = "loop"
    /\ ~LoopCond
    /\ dpc' = AfterLoop
    /\ returned' = ReturnedAfter
    /\ UNCHANGED <<cfg, err, stopTime, report, now, sem, wg, nextOp, pc,
                   locals, mapLock, inserted, rec, allStats, ghosts>>

\* wg.Wait()
WgWait ==
    /\ dpc = "wait"
    /\ wg = 0
    /\ dpc' = "report"
    /\ UNCHANGED <<cfg, err, stopTime, returned, report, now, sem, wg, nextOp,
                   pc, locals, mapLock, inserted, rec, allStats, ghosts>>

\* --------------------------------------------------------------- aggregate
\* float64 values are kept in half ticks, so that the mean of two durations
\* is exact. NaN is the float the statistics functions return with an error.
NaN == [nan |-> TRUE, half |-> 0]

Float(half) == [nan |-> FALSE, half |-> half]

RECURSIVE InsertSorted(_, _)
InsertSorted(x, s) ==
    IF s = <<>> THEN <<x>>
    ELSE IF x <= Head(s) THEN <<x>> \o s
    ELSE <<Head(s)>> \o InsertSorted(x, Tail(s))

RECURSIVE SortedCopy(_)
SortedCopy(ds) ==
    IF ds = <<>> THEN <<>> ELSE InsertSorted(Head(ds), SortedCopy(Tail(ds)))

Failed(e) == [val |-> NaN, err |-> e]
Value(half) == [val |-> Float(half), err |-> "nil"]

\* stats.Min / stats.Max: an empty input is an error.
StatsMin(ds) ==
    IF ds = <<>> THEN Failed("EmptyInput") ELSE Value(2 * SortedCopy(ds)[1])

StatsMax(ds) ==
    IF ds = <<>> THEN Failed("EmptyInput")
    ELSE Value(2 * SortedCopy(ds)[Len(ds)])

\* stats.Median: the middle value, or the mean of the two middle values.
StatsMedian(ds) ==
    LET c == SortedCopy(ds)  l == Len(ds) IN
    IF l = 0 THEN Failed("EmptyInput")
    ELSE IF l % 2 = 0 THEN Value(c[l \div 2] + c[(l \div 2) + 1])
    ELSE Value(2 * c[(l \div 2) + 1])

\* stats.Percentile: index = percent/100 * len; a whole index selects one
\* value, an index above 1 the mean of two neighbours, any other is an error.
StatsPercentile(ds, percent) ==
    LET c == SortedCopy(ds)  l == Len(ds)  i == (percent * l) \div 100 IN
    IF l = 0 THEN Failed("EmptyInput")
    ELSE IF l = 1 THEN Value(2 * ds[1])
    ELSE IF (percent * l) % 100 = 0 THEN Value(2 * c[i])
    ELSE IF percent * l > 100 THEN Value(c[i] + c[i + 1])
    ELSE Failed("Bounds")

\* The statistics a report shows: Recorder.Aggregate shows eight, the
\* standalone aggregate five.
Shown ==
    IF variant = "lib"
      THEN {"min", "max", "median", "p25", "p50", "p75", "p95", "p99"}
      ELSE {"min", "median", "p75", "p95", "p99"}

Stat(s, ds) ==
    CASE s = "min" -> StatsMin(ds)
      [] s = "max" -> StatsMax(ds)
      [] s = "median" -> StatsMedian(ds)
      [] s = "p25" -> StatsPercentile(ds, 25)
      [] s = "p50" -> StatsPercentile(ds, 50)
      [] s = "p75" -> StatsPercentile(ds, 75)
      [] s = "p95" -> StatsPercentile(ds, 95)
      [] s = "p99" -> StatsPercentile(ds, 99)

\* time.Duration(f): a float is truncated to whole ticks; the conversion of
\* NaN is implementation-dependent, build tells which value it gives.
Builds == {"NaN is the least int64", "NaN is 0"}

Duration(f, build) == IF f.nan THEN build ELSE f.half \div 2

\* min, _ = stats.Min(r.durations): the error is dropped, the value is kept.
Dropped(res) == res.val

\* Aggregate: every statistic's value is formatted as a time.Duration, every
\* statistic's error is dropped; the result is a string, there is no error
\* result.
Aggregate(r, build) ==
    [text |-> [s \in Shown |-> Duration(Dropped(Stat(s, r.durations)), build)],
     err |-> "nil"]

\* The recorders the report reads: the copies Stats.Start returned, or the
\* standalone main's own read and writes.
Reported == IF variant = "lib" THEN returned ELSE rec

\* The two log.Printf lines with Ok, Tries and Aggregate; main returns.
Report ==
    /\ dpc = "report"
    /\ dpc' = "exit"
    /\ \E build \in Builds :
         report' = [c \in Classes |->
                      [Ok |-> Reported[c].Ok, Tries |-> Reported[c].Tries,
                       Aggregate |-> Aggregate(Reported[c], build)]]
    /\ UNCHANGED <<cfg, err, stopTime, returned, now, sem, wg, nextOp, pc,
                   locals, mapLock, inserted, rec, allStats, ghosts>>

\* -------------------------------------------------------------- operation
\* The goroutine of operation o runs only while the process lives.
Running(o) == ~Exited /\ pc[o] # "idle"

\* A lock that excludes nobody: check and mark are no critical section.
MutexNeverBlocks(holder) == TRUE

\* sync.Mutex: Lock proceeds only when nobody holds it.
MutexFree(holder) == holder = NoOp

\* Every outcome goes to the read recorder.
RecorderAlwaysRead(c) == "read"

\* rec = &write in the write case, rec = &read in the read case
RecorderOf(c) == c

\* Reads go through the insert-vs-update decision too.
AlwaysLockFirst(c) == "wLock"

\* Where an operation of class c starts: a read calls its adapter directly,
\* a write starts with mapLock.Lock().
FirstStep(c) == IF c = "read" THEN "call" ELSE "wLock"

\* ok = true; opStart = time.Now(); id := rand.Intn(100); switch rand.Intn(10)
\* In "lib" a write calls writeFunc; in "main" the write branch is inline.
Begin(o) ==
    /\ Running(o) /\ pc[o] = "begin"
    /\ \E i \in Keys, c \in Classes :
         /\ id' = [id EXCEPT ![o] = i]
         /\ kind' = [kind EXCEPT ![o] = RecorderOf(c)]
         /\ adapter' = [adapter EXCEPT ![o] = IF c = "read" THEN "read" ELSE "none"]
         /\ pc' = [pc EXCEPT ![o] = FirstStep(c)]
    /\ okv' = [okv EXCEPT ![o] = TRUE]
    /\ opStart' = [opStart EXCEPT ![o] = now]
    /\ UNCHANGED <<cfg, drv, now, sem, wg, nextOp, dur, seen, reg, mapLock,
                   inserted, rec, allStats, ghosts>>

\* Every key is taken to be there already.
KeyAlwaysExists(k) == TRUE

\* inserted[id]
KeyExists(k) == k \in inserted

\* mapLock.Lock(); if inserted[id]
WLock(o) ==
    /\ Running(o) /\ pc[o] = "wLock"
    /\ MutexFree(mapLock)
    /\ mapLock' = o
    /\ seen' = [seen EXCEPT ![o] = KeyExists(id[o])]
    /\ pc' = [pc EXCEPT ![o] = "wBranch"]
    /\ UNCHANGED <<cfg, drv, now, sem, wg, nextOp, id, kind, okv, opStart, dur,
                   adapter, reg, inserted, rec, allStats, ghosts>>

\* Whether the update branch gives mapLock back before it calls update:
\* writeFunc unlocks first, the standalone main calls update and then unlocks.
UnlockBeforeUpdate == variant = "lib"

\* The branch taken: the key is already there -> update; otherwise
\* inserted[id] = true; mapLock.Unlock() -> insert.
WBranch(o) ==
    /\ Running(o) /\ pc[o] = "wBranch"
    /\ IF seen[o]
         THEN /\ adapter' = [adapter EXCEPT ![o] = "update"]
              /\ mapLock' = IF UnlockBeforeUpdate THEN NoOp ELSE mapLock
              /\ UNCHANGED inserted
         ELSE /\ adapter' = [adapter EXCEPT ![o] = "insert"]
              /\ inserted' = inserted \cup {id[o]}
              /\ mapLock' = NoOp
    /\ seen' = [seen EXCEPT ![o] = FALSE]
    /\ pc' = [pc EXCEPT ![o] = "call"]
    /\ UNCHANGED <<cfg, drv, now, sem, wg, nextOp, id, kind, okv, opStart, dur,
                   reg, rec, allStats, ghosts>>

\* The adapter function (find / insert / update) is invoked.
Call(o) ==
    /\ Running(o) /\ pc[o] = "call"
    /\ callLog' = IF adapter[o] = "read" THEN callLog
                  ELSE [callLog EXCEPT ![id[o]] = Append(@, adapter[o])]
    /\ ncalls' = [ncalls EXCEPT ![o] = @ + 1]
    /\ pc' = [pc EXCEPT ![o] = "inCall"]
    /\ UNCHANGED <<cfg, drv, now, sem, wg, nextOp, locals, mapLock, inserted,
                   rec, allStats, retOk, nrecs, fed>>

\* ok is never set to false.
OkAlwaysTrue(errIsNil) == TRUE

\* The value of ok after "if err != nil { ok = false }".
OkAfter(errIsNil) == errIsNil

\* err = ... instead of err := ...: the adapter's error lands in the named
\* result of Start.
ErrAssigned(errIsNil) == IF errIsNil THEN err ELSE "adapter"

\* What an adapter error does to the error result of the run: nothing, the
\* goroutine's err is a new variable (err := ...), not the named result.
ErrAfter(errIsNil) == err

\* A failed call takes the mark of its key back.
UnmarkOnFailure(marks, k, errIsNil) == IF errIsNil THEN marks ELSE marks \ {k}

\* What the outcome of insert or update does to the inserted map: nothing,
\* the error is only handed on to the caller.
MarksAfter(marks, k, errIsNil) == marks

\* The slot is given back first, the outcome is not recorded.
ReleaseFirst == "release"

\* Deferred calls run last registered first: the record closure, then the
\* receive from sem, then wg.Done.
FirstDeferred == "recLock"

\* The adapter call returns nil or an error; the standalone update branch
\* unlocks mapLock now; the deferred closure evaluates time.Since(opStart).
\* id, opStart and the choice of adapter are not read again and are cleared.
\* The deferred closure calls rec.record(ok, d).
Return(o) ==
    /\ Running(o) /\ pc[o] = "inCall"
    /\ \E e \in BOOLEAN :
         /\ retOk' = [retOk EXCEPT ![o] = e]
         /\ okv' = [okv EXCEPT ![o] = OkAfter(e)]
         /\ err' = ErrAfter(e)
         /\ inserted' = MarksAfter(inserted, id[o], e)
         /\ fed' = IF OkAfter(e)
                      THEN [fed EXCEPT ![kind[o]].ok = @ + 1]
                      ELSE [fed EXCEPT ![kind[o]].fail = @ + 1]
    /\ mapLock' = IF mapLock = o THEN NoOp ELSE mapLock
    /\ dur' = [dur EXCEPT ![o] = now - opStart[o]]
    /\ id' = [id EXCEPT ![o] = 0]
    /\ opStart' = [opStart EXCEPT ![o] = 0]
    /\ adapter' = [adapter EXCEPT ![o] = "none"]
    /\ pc' = [pc EXCEPT ![o] = FirstDeferred]
    /\ UNCHANGED <<cfg, dpc, stopTime, returned, report, now, sem, wg, nextOp,
                   kind, seen, reg, rec, allStats, callLog, ncalls, nrecs>>

\* ---------------------------------------------------------------- recorder
\* r.mu.Lock(); r.Tries++ loads r.Tries
RecLock(o) ==
    /\ Running(o) /\ pc[o] = "recLock"
    /\ MutexFree(rec[kind[o]].mu)
    /\ rec' = [rec EXCEPT ![kind[o]].mu = o]
    /\ reg' = [reg EXCEPT ![o] = rec[kind[o]].Tries]
    /\ pc' = [pc EXCEPT ![o] = "recTries"]
    /\ UNCHANGED <<cfg, drv, now, sem, wg, nextOp, id, kind, okv, opStart, dur,
                   seen, adapter, mapLock, inserted, allStats, ghosts>>

\* if ok { r.Ok++ }
OkIncrement(ok) == IF ok THEN 1 ELSE 0

\* r.Tries++ stores; if ok { r.Ok++ }
RecTries(o) ==
    /\ Running(o) /\ pc[o] = "recTries"
    /\ rec' = [rec EXCEPT ![kind[o]].Tries = reg[o] + 1,
                          ![kind[o]].Ok = @ + OkIncrement(okv[o])]
    /\ reg' = [reg EXCEPT ![o] = 0]
    /\ pc' = [pc EXCEPT ![o] = "recAppend"]
    /\ UNCHANGED <<cfg, drv, now, sem, wg, nextOp, id, kind, okv, opStart, dur,
                   seen, adapter, mapLock, inserted, allStats, ghosts>>

\* Only the duration of a success is kept.
DurationsOfSuccesses(ds, d, ok) == IF ok THEN Append(ds, d) ELSE ds

\* append(r.durations, float64(d)): every duration, of a failure too
DurationsAfter(ds, d, ok) == Append(ds, d)

\* r.durations = append(r.durations, float64(d)); r.mu.Unlock()
\* The arguments of record are not read again and are cleared.
RecAppend(o) ==
    /\ Running(o) /\ pc[o] = "recAppend"
    /\ rec' = [rec EXCEPT ![kind[o]].durations = DurationsAfter(@, dur[o], okv[o]),
                          ![kind[o]].mu = IF @ = o THEN NoOp ELSE @]
    /\ kind' = [kind EXCEPT ![o] = "none"]
    /\ okv' = [okv EXCEPT ![o] = TRUE]
    /\ retOk' = [retOk EXCEPT ![o] = TRUE]
    /\ dur' = [dur EXCEPT ![o] = 0]
    /\ pc' = [pc EXCEPT ![o] = "recProgress"]
    /\ UNCHANGED <<cfg, drv, now, sem, wg, nextOp, id, opStart, seen, adapter,
                   reg, mapLock, inserted, allStats, callLog, ncalls, nrecs, fed>>

\* One record call counts as two operations done.
ProgressCountedTwice(n) == n + 2

\* atomic.AddInt64(&allStats, 1)
ProgressAfter(n) == n + 1

\* atomic.AddInt64(&allStats, 1); record returns
RecProgress(o) ==
    /\ Running(o) /\ pc[o] = "recProgress"
    /\ allStats' = ProgressAfter(allStats)
    /\ nrecs' = [nrecs EXCEPT ![o] = @ + 1]
    /\ pc' = [pc EXCEPT ![o] = "release"]
    /\ UNCHANGED <<cfg, drv, now, sem, wg, nextOp, locals, mapLock, inserted,
                   rec, callLog, ncalls, retOk, fed>>

\* defer func() { <-sem }()
Release(o) ==
    /\ Running(o) /\ pc[o] = "release"
    /\ sem > 0
    /\ sem' = sem - 1
    /\ pc' = [pc EXCEPT ![o] = "wgDone"]
    /\ UNCHANGED <<cfg, drv, now, wg, nextOp, locals, mapLock, inserted, rec,
                   allStats, ghosts>>

\* defer wg.Done(); the goroutine ends.
WgDone(o) ==
    /\ Running(o) /\ pc[o] = "wgDone"
    /\ wg' = wg - 1
    /\ pc' = [pc EXCEPT ![o] = "done"]
    /\ UNCHANGED <<cfg, drv, now, sem, nextOp, locals, mapLock, inserted, rec,
                   allStats, ghosts>>

Worker(o) ==
    \/ Begin(o) \/ WLock(o) \/ WBranch(o) \/ Call(o) \/ Return(o)
    \/ RecLock(o) \/ RecTries(o) \/ RecAppend(o) \/ RecProgress(o)
    \/ Release(o) \/ WgDone(o)

Driver ==
    \/ Validate \/ LoopEnter \/ Dispatch \/ LoopExit \/ WgWait \/ Report

Next == Tick \/ Driver \/ (\E o \in Ops : Worker(o))

Spec == Init /\ [][Next]_vars

TypeOK ==
    /\ sem \in 0..MaxOps /\ wg \in 0..MaxOps /\ nextOp \in 0..MaxOps
    /\ now \in 0..stopTime
    /\ mapLock \in Ops \cup {NoOp}
    /\ inserted \subseteq Keys
    /\ \A c \in Classes : rec[c].Tries \in 0..MaxOps /\ rec[c].Ok \in 0..MaxOps

\* ------------------------------------------------------------------ claims
\* Operations launched that have not yet given their slot back.
InFlight == {o \in Ops : pc[o] \notin {"idle", "wgDone", "done"}}

\* Operations with a record call in progress on recorder c.
Recording(c) ==
    {o \in Ops : kind[o] = c
                 /\ pc[o] \in {"recLock", "recTries", "recAppend"}}

Inserts(k) == {i \in 1..Len(callLog[k]) : callLog[k][i] = "insert"}
Updates(k) == {i \in 1..Len(callLog[k]) : callLog[k][i] = "update"}

Failures == fed["read"].fail + fed["write"].fail

\* C1: Stats.Start returns only after every operation it dispatched has
\* recorded its outcome and released its slot, so the caller's report is
\* never taken while a worker can still call record.
C1_StartReturnsAfterDrain ==
    (variant = "lib" /\ dpc \in {"report", "exit"}) => InFlight = {}

\* C2: with ReqCount = L > 0, the operations launched that have not yet
\* released their slot are never more than L.
C2_Budget == reqCount > 0 => Cardinality(InFlight) <= reqCount

\* The budget is exhausted and the dispatch loop is blocked on the send.
C2_Witness ==
    /\ dpc = "acquire" /\ reqCount > 0
    /\ Cardinality(InFlight) = reqCount /\ sem = reqCount

\* C3: no operation is dispatched at a time t >= start + D, also not by an
\* iteration that was waiting for a slot when the deadline passed.
C3_NoDispatchAfterDeadline == [][nextOp' # nextOp => now < stopTime]_vars

\* C3 as amended: no iteration of the dispatch loop begins at a time
\* t >= start + D; the iteration that began before the deadline may still
\* acquire its slot and launch after it, and that launch is the last one: the
\* loop condition is false from then on.
C3_OneLateDispatchAtMost ==
    /\ [][(dpc = "loop" /\ dpc' = "acquire") => now < stopTime]_vars
    /\ [][(nextOp' # nextOp /\ now >= stopTime) =>
              (dpc' = "loop" /\ ~LoopCond')]_vars

\* With one slot, the first operation was still being served when the
\* deadline passed, and the second one was launched after it.
C3_Witness ==
    /\ reqCount = 1 /\ nextOp = 2 /\ now >= stopTime
    /\ \E c \in Classes : Len(rec[c].durations) = 1 /\ rec[c].durations[1] > 0

\* C4: for every id the insert adapter call is issued at most once.
C4_AtMostOneInsert == \A k \in Keys : Cardinality(Inserts(k)) <= 1

\* Two writers met on one id: one insert and one update were issued for it.
C4_Witness ==
    \E k \in Keys : Cardinality(Inserts(k)) = 1 /\ Cardinality(Updates(k)) >= 1

InsertDecisions(k) ==
    Cardinality(Inserts(k))
    + Cardinality({o \in Ops : pc[o] = "call" /\ adapter[o] = "insert"
                                /\ id[o] = k})

C6_RecorderInvariant ==
    \A c \in Classes :
        rec[c].mu = NoOp =>
            /\ 0 <= rec[c].Ok /\ rec[c].Ok <= rec[c].Tries
            /\ rec[c].Tries = Len(rec[c].durations)
            /\ (fed[c].fail = 0 => rec[c].Ok = rec[c].Tries)

\* A recorder that holds a failure and a success, with no record call inside.
C6_Witness ==
    \E c \in Classes :
        rec[c].mu = NoOp /\ rec[c].Tries = 2 /\ rec[c].Ok = 1

\* C7: once the N record calls made on a recorder have all returned,
\* Tries = N, len(durations) = N and Ok is the number of calls with ok = true.
C7_NoLostUpdate ==
    \A c \in Classes :
        Recording(c) = {} =>
            /\ rec[c].Tries = fed[c].ok + fed[c].fail
            /\ Len(rec[c].durations) = fed[c].ok + fed[c].fail
            /\ rec[c].Ok = fed[c].ok

\* Two record calls ran on one recorder at the same time and both returned.
C7_Witness ==
    \E c \in Classes :
        /\ Recording(c) = {} /\ fed[c].ok + fed[c].fail = 2
        /\ reqCount = 2 /\ rec[c].Tries = 2

\* C8: an adapter error never aborts the run and is never the error of
\* Stats.Start: the run fails, and err is non-nil, only when the
\* configuration is invalid.
C8_ErrorsAbsorbed ==
    (err # "nil" \/ dpc = "failed") => (~ConfigValid /\ nextOp = 0)

\* With one slot, an operation was dispatched after another one had failed.
C8_Witness ==
    /\ Failures > 0 /\ reqCount = 1 /\ nextOp = 2 /\ dpc = "loop"
    /\ err = "nil"

\* C9: every operation invokes one adapter function once and calls record
\* once, with ok = true iff the adapter returned no error; nothing is retried,
\* so no recorder counts more tries than operations of its class have ended,
\* nor more successes than adapter calls have succeeded.
C9_OneOutcomePerOperation ==
    /\ \A o \in Ops :
          /\ ncalls[o] <= 1 /\ nrecs[o] <= 1
          /\ pc[o] \in {"recLock", "recTries", "recAppend"} =>
                 (ncalls[o] = 1 /\ nrecs[o] = 0 /\ okv[o] = retOk[o])
          /\ pc[o] \in {"release", "wgDone", "done"} =>
                 (ncalls[o] = 1 /\ nrecs[o] = 1)
    /\ \A c \in Classes :
          /\ rec[c].Tries <= fed[c].ok + fed[c].fail
          /\ rec[c].Ok <= fed[c].ok

\* An operation whose adapter call failed is recording ok = false.
C9_Witness ==
    \E o \in Ops : pc[o] = "recAppend" /\ ~retOk[o] /\ ~okv[o]

\* C10: for every configuration with ReqCount <= 0 the run fails with a
\* configuration error and nothing is acquired, launched or called.
C10_InvalidConfigRejected ==
    (reqCount <= 0 /\ dpc # "validate") =>
        (dpc = "failed" /\ err = "config" /\ sem = 0 /\ nextOp = 0)

\* C11: a run configured with RunFor = 0 (and a valid ReqCount) is accepted
\* and has no deadline: it is never rejected and its dispatch loop never
\* ends.
C11_ZeroRunForAccepted ==
    (runFor = 0 /\ reqCount > 0 /\ dpc # "validate") =>
        dpc \in {"loop", "acquire"}

\* C12: Aggregate on a recorder without recorded durations fails (or reports
\* that there is no data): a report made from an empty recorder carries an
\* error, it is never a text built from the statistics functions' values.
C12_EmptyAggregateFails ==
    dpc = "exit" =>
        \A c \in Classes :
            Reported[c].durations = <<>> => report[c].Aggregate.err # "nil"

\* C13: a failed insert leaves the key marked. When an insert call returns
\* an error its operation records one failed try (ok = false, counted once in
\* Tries and not in Ok) and the key stays marked; no step ever removes a mark;
\* and a writer that decides on a marked key always calls update, never
\* insert.
C13_FailedInsertStaysMarked ==
    /\ [][\A o \in Ops :
            (pc[o] = "inCall" /\ adapter[o] = "insert" /\ pc'[o] = "recLock"
             /\ ~retOk'[o]) =>
                (/\ id[o] \in inserted'
                 /\ ~okv'[o] /\ kind'[o] = "write"
                 /\ fed'["write"].fail = fed["write"].fail + 1
                 /\ fed'["write"].ok = fed["write"].ok)]_vars
    /\ [][\A o \in Ops :
            (pc[o] = "recTries" /\ pc'[o] = "recAppend" /\ ~okv[o]) =>
                (/\ rec'[kind[o]].Tries = rec[kind[o]].Tries + 1
                 /\ rec'[kind[o]].Ok = rec[kind[o]].Ok)]_vars
    /\ [][inserted \subseteq inserted']_vars
    /\ [][\A o \in Ops :
            (pc[o] = "wBranch" /\ pc'[o] = "call" /\ id[o] \in inserted) =>
                adapter'[o] = "update"]_vars

\* The insert of a key failed and was recorded as the one failed try; the
\* key is still marked and the next write to it is calling update.
C13_Witness ==
    \E k \in Keys :
        /\ callLog[k] = <<"insert", "update">> /\ k \in inserted
        /\ fed["write"] = [ok |-> 0, fail |-> 1]
        /\ rec["write"].Tries = 1 /\ rec["write"].Ok = 0
        /\ \E o \in Ops : pc[o] = "inCall" /\ adapter[o] = "update" /\ id[o] = k

\* C14: in every write path the key-existence lock is never held while an
\* adapter call (insert or update) is executing.
C14_NoLockDuringAdapterCall == \A o \in Ops : pc[o] = "inCall" => mapLock # o

\* C15: each outcome goes to the recorder of the operation's own class. An
\* operation that calls the read adapter points at the read recorder, one
\* that calls insert or update at the write recorder; the pointer is set
\* whenever a record call runs; and a step changes a recorder only if it is a
\* step of a record call of an operation of that class, and then leaves the
\* other recorder unchanged.
C15_OwnRecorderOnly ==
    /\ [](\A o \in Ops :
            /\ pc[o] \in {"call", "inCall"} =>
                   (kind[o] = "read" <=> adapter[o] = "read")
            /\ pc[o] \in {"call", "inCall", "recLock", "recTries", "recAppend"}
                   => kind[o] \in Classes)
    /\ [][\A c \in Classes :
            rec'[c] # rec[c] =>
                /\ \E o \in Ops : kind[o] = c /\ pc'[o] # pc[o]
                                  /\ pc[o] \in {"recLock", "recTries", "recAppend"}
                /\ \A d \in Classes \ {c} : rec'[d] = rec[d]]_vars

\* A read operation is inside record on the read recorder while the write
\* recorder already holds the outcome of a write.
C15_Witness ==
    \E o \in Ops :
        /\ pc[o] = "recAppend" /\ kind[o] = "read"
        /\ rec["read"].Tries = 1 /\ rec["write"].Tries = 1
        /\ Len(rec["write"].durations) = 1 /\ rec["read"].durations = <<>>

\* C16: a read needs no coordination. A read operation never holds the
\* key-existence lock and no step of a read takes or gives back the lock;
\* the set of marked keys changes only by the "new key" branch of a write,
\* which adds exactly the id that the writer sampled and found unmarked.
C16_ReadsNeedNoCoordination ==
    /\ [](\A o \in Ops : kind[o] = "read" => mapLock # o)
    /\ [][mapLock' # mapLock =>
            \E o \in Ops : kind[o] = "write" /\ pc'[o] # pc[o]
                           /\ o \in {mapLock, mapLock'}]_vars
    /\ [][inserted' # inserted =>
            \E o \in Ops :
                /\ kind[o] = "write" /\ pc[o] = "wBranch" /\ pc'[o] = "call"
                /\ ~seen[o] /\ adapter'[o] = "insert"
                /\ id[o] \notin inserted
                /\ inserted' = inserted \cup {id[o]}]_vars

\* A read is executing its adapter call while a writer holds the lock.
C16_Witness ==
    \E o \in Ops :
        /\ pc[o] = "inCall" /\ kind[o] = "read" /\ adapter[o] = "read"
        /\ mapLock \in Ops \ {o}

\* C17: the timer of a write is started after the key-existence lock has
\* been released, just before the adapter is invoked: while an operation
\* waits for the lock that another operation holds, no time has run on its
\* timer, so the wait is not part of the duration it records.
C17_LockWaitNotTimed ==
    \A o \in Ops :
        (pc[o] = "wLock" /\ mapLock \in Ops \ {o}) => now - opStart[o] = 0

\* The scheduler runs every goroutine that can take a step, the clock
\* advances, and every adapter call returns (Return is a step of Worker).
Fairness ==
    /\ WF_vars(Tick)
    /\ WF_vars(Driver)
    /\ \A o \in Ops : WF_vars(Worker(o))

FairSpec == Spec /\ Fairness

\* C18: under weak fairness, with every adapter call returning, a dispatch
\* loop blocked on an exhausted budget eventually resumes, for RunFor > 0 the
\* dispatch loop eventually stops, and every launched worker eventually
\* records and releases its slot (none waits forever on the slot channel, the
\* key-existence lock or a recorder lock).
C18_DriverLiveness ==
    /\ (dpc = "acquire" /\ sem = reqCount) ~> (dpc = "loop")
    /\ (runFor > 0 /\ dpc \in {"loop", "acquire"}) ~> (dpc \notin {"loop", "acquire"})
    /\ \A o \in Ops :
          (pc[o] # "idle") ~> (pc[o] \in {"wgDone", "done"} /\ nrecs[o] = 1)

\* Operations inside a record call, the progress count included.
InRecord ==
    {o \in Ops : pc[o] \in {"recLock", "recTries", "recAppend", "recProgress"}}

\* Operations whose record call has returned.
Recorded == {o \in Ops : pc[o] \in {"release", "wgDone", "done"}}

\* C19: the one progress counter allStats counts the record calls of both
\* recorders: it is the number of record calls that have returned, it is
\* never above read.Tries + write.Tries and equals it whenever no record call
\* is in progress, and it changes only by a record call adding exactly 1.
C19_ProgressCounter ==
    /\ [](/\ allStats = Cardinality(Recorded)
          /\ allStats <= rec["read"].Tries + rec["write"].Tries
          /\ InRecord = {} => allStats = rec["read"].Tries + rec["write"].Tries)
    /\ [][allStats' # allStats =>
            /\ allStats' = allStats + 1
            /\ \E o \in Ops : pc[o] = "recProgress" /\ pc'[o] = "release"]_vars

\* Both recorders have counted a try, one record call has returned and the
\* other has left the critical section but not yet counted its progress.
C19_Witness ==
    /\ rec["read"].Tries = 1 /\ rec["write"].Tries = 1 /\ allStats = 1
    /\ \E o \in Ops : pc[o] = "recProgress"

\* C20: a worker records, then releases its slot, then signals the wait
\* group: an operation that has released its slot has recorded, the wait
\* group never counts fewer operations than hold a slot, and therefore
\* dispatched - slots held <= read.Tries + write.Tries <= dispatched, with
\* the recorders accounting for every dispatched operation whenever no slot
\* is held.
C20_RecordReleaseDone ==
    LET tries == rec["read"].Tries + rec["write"].Tries IN
    /\ \A o \in Ops : pc[o] \in {"wgDone", "done"} => nrecs[o] = 1
    /\ sem <= wg
    /\ wg - sem = Cardinality({o \in Ops : pc[o] = "wgDone"})
    /\ nextOp - sem <= tries /\ tries <= nextOp
    /\ sem = 0 => tries = nextOp

\* One operation has recorded and released its slot but not yet signalled
\* the wait group; the other holds its slot and is in its adapter call.
C20_Witness ==
    /\ nextOp = 2 /\ sem = 1 /\ wg = 2
    /\ rec["read"].Tries + rec["write"].Tries = 1
    /\ \E o, p \in Ops : pc[o] = "wgDone" /\ pc[p] = "inCall"
====
